---- MODULE Spec2Model ----
(***************************************************************************)
(* A model of libs/subcleaner/subtitle.py: the Subtitle document, its      *)
(* construction (segmentation, emptiness check, language determination,    *)
(* language validation, forced deletion) and its public operations.        *)
(*                                                                         *)
(* Text is abstracted as follows.  A line of the subtitle file is one of   *)
(* five kinds, which are exactly the distinctions the code draws:          *)
(*   NUM      str.isnumeric() holds (a sequence-number line);              *)
(*   ARROW    the line contains "-->";                                     *)
(*   EMARROW  the line contains an em dash followed by ">" and no "-->";   *)
(*   TEXT     any other line with a non-whitespace character;              *)
(*   BLANK    an empty or whitespace-only line.                            *)
(* Every non-blank line has `width` characters.  File-name suffixes and    *)
(* language tags are sequences of one-character strings, so that the       *)
(* string operations of determine_language are computed, not assumed.      *)
(* Probabilities are integers in percent.                                  *)
(***************************************************************************)
EXTENDS Integers, Sequences, FiniteSets, TLC

VARIABLES
    file_content,      \* the lines of the file read by read_file
    width,             \* the length of each non-blank line of the file
    suffixes,          \* self.file.suffixes
    args_language,     \* settings.args.language (<<>>: not given)
    default_language,  \* settings.config.default_language (<<>>: not set)
    destroy_list,      \* settings.args.destroy_list
    pc,                \* position of __init__; "done" once constructed
    blocks,            \* self.blocks
    ad_blocks,         \* self.ad_blocks (identities of blocks)
    warning_blocks,    \* self.warning_blocks (identities of blocks)
    language,          \* self.language
    err,               \* the exception raised by the last call, or "none"
    last_op,           \* the last call made on the object and its argument
    ret,               \* the value returned by the last call
    det_determine,     \* what detect_langs returned to determine_language
    det_validate       \* what detect_langs returned to language_is_correct

vars == <<file_content, width, suffixes, args_language, default_language,
          destroy_list, pc, blocks, ad_blocks, warning_blocks, language, err,
          last_op, ret, det_determine, det_validate>>

config_vars == <<file_content, width, suffixes, args_language,
                 default_language, destroy_list>>

----------------------------------------------------------------------------
(* Bounds of the model. *)

MaxJunk == 5
MaxCues == 3
MaxBlocks == 3
MaxPurge == 2
MaxSuffixes == 4

(* Constants of the program. *)

Sentinel == 3
MinContentLen == 500
ValidateThreshold == 80
DetermineThreshold == 90

----------------------------------------------------------------------------
(* Lines. *)

NUM == "NUM"
ARROW == "ARROW"
EMARROW == "EMARROW"
TEXT == "TEXT"
BLANK == "BLANK"

Kinds == {NUM, ARROW, EMARROW, TEXT, BLANK}

isnumeric(line) == line = NUM

has_arrow(line) == line = ARROW

(* file_content.replace(em dash, "--"), on one line. *)
replace_emdash(line) == IF line = EMARROW THEN ARROW ELSE line

(* re.sub(r'\n\s*\n', '\n', file_content) followed by split("\n"), on the   *)
(* lines of the file: a whitespace-only line that has a newline before and *)
(* after it (every blank line but the first and the last of the file)      *)
(* disappears; all other lines keep their kind.                            *)
RECURSIVE collapse_blank(_, _)
collapse_blank(lines, i) ==
    IF i > Len(lines) THEN <<>>
    ELSE IF lines[i] = BLANK /\ 1 < i /\ i < Len(lines)
         THEN collapse_blank(lines, i + 1)
         ELSE <<lines[i]>> \o collapse_blank(lines, i + 1)

(* The list handed to _breakup_block by _parse_file_content.  "".split     *)
(* gives [""], so an empty file is one blank line.                         *)
split_lines(content) ==
    LET lines == IF content = <<>> THEN <<BLANK>> ELSE content
        collapsed == collapse_blank(lines, 1)
    IN  [i \in 1..Len(collapsed) |-> replace_emdash(collapsed[i])]

----------------------------------------------------------------------------
(* SubBlock (libs/subcleaner/sub_block.py). *)

NoError == "none"

(* Whether SubBlock(text) returns a block; otherwise ParsingException. *)
SubBlockParses(chunk) ==
    /\ Len(chunk) >= 2
    /\ isnumeric(chunk[1])
    /\ has_arrow(chunk[2])

(* The text lines of a cue: everything after its number and time lines. *)
text_lines(chunk) == SubSeq(chunk, 3, Len(chunk))

(* len(block.content): the text lines joined by newlines, trimmed. *)
RECURSIVE sum_widths(_, _)
sum_widths(lines, w) ==
    IF lines = <<>> THEN 0
    ELSE (IF Head(lines) = BLANK THEN 0 ELSE w) + sum_widths(Tail(lines), w)

content_len(chunk, w) ==
    LET t == SelectSeq(text_lines(chunk), LAMBDA l : l # BLANK)
    IN  IF t = <<>> THEN 0 ELSE sum_widths(t, w) + (Len(t) - 1)

NewBlock(chunk, w, k) ==
    [id |-> <<"block", k>>, lines |-> chunk, content_len |-> content_len(chunk, w),
     regex_matches |-> 0, current_index |-> 0]

----------------------------------------------------------------------------
(* Subtitle._breakup_block: the scan.  i and last_break are the 0-based    *)
(* indices of the code; raw_blocks[k] of the code is raw_blocks[k + 1].    *)

(* the scan cutting each block one line late: raw_blocks[last_break:i] *)
RECURSIVE breakup_scan_late(_, _, _, _, _)
breakup_scan_late(raw_blocks, w, i, last_break, acc) ==
    IF i >= Len(raw_blocks) THEN [blocks |-> acc, err |-> NoError]
    ELSE IF has_arrow(raw_blocks[i + 1]) /\ isnumeric(raw_blocks[i])
    THEN LET chunk == SubSeq(raw_blocks, last_break + 1, i)
         IN  IF ~SubBlockParses(chunk)
             THEN [blocks |-> acc, err |-> "ParsingException"]
             ELSE LET block == NewBlock(chunk, w, Len(acc) + 1)
                  IN  breakup_scan_late(raw_blocks, w, i + 1, i - 1,
                          IF block.content_len > 0
                          THEN Append(acc, block) ELSE acc)
    ELSE breakup_scan_late(raw_blocks, w, i + 1, last_break, acc)

RECURSIVE breakup_scan(_, _, _, _, _)
breakup_scan(raw_blocks, w, i, last_break, acc) ==
    IF i >= Len(raw_blocks) THEN [blocks |-> acc, err |-> NoError]
    ELSE IF has_arrow(raw_blocks[i + 1]) /\ isnumeric(raw_blocks[i])
    THEN LET chunk == SubSeq(raw_blocks, last_break + 1, i - 1)
         IN  IF ~SubBlockParses(chunk)
             THEN [blocks |-> acc, err |-> "ParsingException"]
             ELSE LET block == NewBlock(chunk, w, Len(acc) + 1)
                  IN  breakup_scan(raw_blocks, w, i + 1, i - 1,
                          IF block.content_len > 0
                          THEN Append(acc, block) ELSE acc)
    ELSE breakup_scan(raw_blocks, w, i + 1, last_break, acc)

breakup_block(raw_blocks, w) == breakup_scan(raw_blocks, w, 2, 0, <<>>)

parse_file_content(content, w) == breakup_block(split_lines(content), w)

(* an object that is always truthy *)
bool_always(blks) == TRUE

(* Subtitle.__bool__ *)
bool_subtitle(blks) == \E k \in 1..Len(blks) : blks[k].content_len > 0

----------------------------------------------------------------------------
(* Strings of determine_language, as sequences of characters. *)

NoLang == <<>>
Und == <<"u", "n", "d">>
En == <<"e", "n">>
Sv == <<"s", "v">>
English == <<"e", "n", "g", "l", "i", "s", "h">>
Zz == <<"z", "z">>

DotSrt == <<".", "s", "r", "t">>
DotEn == <<".", "e", "n">>
DotSvSe == <<".", "s", "v", "_", "S", "E">>
DotEnUs == <<".", "e", "n", ":", "U", "S">>
DotForced == <<".", "f", "o", "r", "c", "e", "d">>

(* str.replace(old, new) for one-character old and new. *)
replace_char(s, old, new) ==
    [i \in 1..Len(s) |-> IF s[i] = old THEN new ELSE s[i]]

(* str.split(sep)[0]: the text before the first sep, or the whole string. *)
RECURSIVE split_first(_, _)
split_first(s, sep) ==
    IF s = <<>> \/ Head(s) = sep THEN <<>>
    ELSE <<Head(s)>> \o split_first(Tail(s), sep)

(* s[1:] *)
drop_first(s) == IF s = <<>> THEN <<>> ELSE Tail(s)

(* suffix.replace(":", "-").replace("_", "-").split("-")[0][1:] *)
parse_suffix(suffix) ==
    drop_first(split_first(replace_char(replace_char(suffix, ":", "-"),
                                        "_", "-"), "-"))

(* seq[start:stop] of Python for start, stop < 0. *)
py_slice_neg(seq, start, stop) ==
    LET n == Len(seq)
        lo == IF n + start < 0 THEN 0 ELSE n + start
        hi == IF n + stop < 0 THEN 0 ELSE n + stop
    IN  SubSeq(seq, lo + 1, hi)

(* the slice that keeps the final suffix: suffixes[-3:] *)
candidate_suffixes_with_last(sfx) ==
    SubSeq(sfx, (IF Len(sfx) < 3 THEN 0 ELSE Len(sfx) - 3) + 1, Len(sfx))

(* self.file.suffixes[-3:-1] *)
candidate_suffixes(sfx) == py_slice_neg(sfx, -3, -1)

(* The language registry (libs/subcleaner/languages). *)
is_language(tag) == tag \in {En, Sv, English}

get_2letter_code(tag) ==
    IF tag \in {En, English} THEN En
    ELSE IF tag = Sv THEN Sv
    ELSE NoLang

(* The top guess langdetect.detect_langs may return: it is drawn anew at   *)
(* every call (the detector is an external, randomised collaborator).      *)
Guesses == [lang : {En, Sv}, prob : {80, 81, 90, 91}]

NoGuess == [lang |-> NoLang, prob |-> 0]

(* The sub_content both language methods build: the blocks' contents       *)
(* concatenated with nothing between them. *)
RECURSIVE sub_content_len(_)
sub_content_len(blks) ==
    IF blks = <<>> THEN 0
    ELSE Head(blks).content_len + sub_content_len(Tail(blks))

----------------------------------------------------------------------------
(* Subtitle.determine_language *)

(* The loop over the candidate suffixes: the first recognised token, or    *)
(* NoLang when the loop ends without returning. *)
RECURSIVE suffix_language(_)
suffix_language(cands) ==
    IF cands = <<>> THEN NoLang
    ELSE LET parsed_lang == parse_suffix(Head(cands))
         IN  IF is_language(parsed_lang) THEN parsed_lang
             ELSE suffix_language(Tail(cands))

(* Whether determine_language reaches langdetect.detect_langs. *)
determine_detects(dflt, sfx, blks) ==
    /\ dflt = NoLang
    /\ suffix_language(candidate_suffixes(sfx)) = NoLang
    /\ ~(sub_content_len(blks) < MinContentLen)

(* self.language after determine_language; guess is the detector's answer, *)
(* read only when determine_detects holds. *)
determine_language(dflt, sfx, blks, guess) ==
    IF dflt # NoLang THEN dflt
    ELSE LET from_suffix == suffix_language(candidate_suffixes(sfx))
         IN  IF from_suffix # NoLang THEN from_suffix
             ELSE IF sub_content_len(blks) < MinContentLen THEN Und
             ELSE IF guess.prob > DetermineThreshold THEN guess.lang
             ELSE Und

----------------------------------------------------------------------------
(* Subtitle.language_is_correct *)

(* Whether language_is_correct reaches langdetect.detect_langs. *)
validate_detects(lang, blks) ==
    /\ lang # Und
    /\ get_2letter_code(lang) # NoLang
    /\ ~(sub_content_len(blks) < MinContentLen)

(* language_is_correct accepting a probability of exactly 0.8 *)
language_is_correct_ge(lang, blks, guess) ==
    IF lang = Und THEN TRUE
    ELSE LET language_code_2 == get_2letter_code(lang)
         IN  IF language_code_2 = NoLang THEN TRUE
             ELSE IF sub_content_len(blks) < MinContentLen THEN TRUE
             ELSE guess.lang = language_code_2 /\ guess.prob >= ValidateThreshold

(* The value returned; guess is read only when validate_detects holds. *)
language_is_correct(lang, blks, guess) ==
    IF lang = Und THEN TRUE
    ELSE LET language_code_2 == get_2letter_code(lang)
         IN  IF language_code_2 = NoLang THEN TRUE
             ELSE IF sub_content_len(blks) < MinContentLen THEN TRUE
             ELSE guess.lang = language_code_2 /\ guess.prob > ValidateThreshold

----------------------------------------------------------------------------
(* Subtitle.mark_blocks_for_deletion: the loop, which stops at the first   *)
(* IndexError with the earlier positions already applied.                  *)

RECURSIVE mark_loop(_, _)
mark_loop(blks, purge_list) ==
    IF purge_list = <<>> THEN [blocks |-> blks, err |-> NoError]
    ELSE LET index == Head(purge_list)
             n == Len(blks)
             j == index - 1                         \* the subscript of the code
         IN  IF j >= n THEN mark_loop(blks, Tail(purge_list))
             ELSE IF j >= 0                         \* blocks[j], j in range
             THEN mark_loop([blks EXCEPT ![j + 1].regex_matches = Sentinel],
                            Tail(purge_list))
             ELSE IF j + n >= 0                     \* a negative subscript
             THEN mark_loop([blks EXCEPT ![j + n + 1].regex_matches = Sentinel],
                            Tail(purge_list))
             ELSE [blocks |-> blks, err |-> "IndexError"]

(* mark_blocks_for_deletion removing the blocks instead of scoring them *)
RECURSIVE mark_by_removing(_, _)
mark_by_removing(blks, purge_list) ==
    IF purge_list = <<>> THEN [blocks |-> blks, err |-> NoError]
    ELSE LET j == Head(purge_list) - 1
         IN  IF j >= Len(blks) \/ j < 0
             THEN mark_by_removing(blks, Tail(purge_list))
             ELSE mark_by_removing(SubSeq(blks, 1, j)
                                   \o SubSeq(blks, j + 2, Len(blks)),
                                   Tail(purge_list))

mark_blocks_for_deletion(blks, purge_list) == mark_loop(blks, purge_list)

----------------------------------------------------------------------------
(* Subtitle.reindex, to_content, get_warning_indexes *)

RECURSIVE reindex_loop(_, _, _)

(* reindex counting from 0 *)
reindex_from_zero(blks) == reindex_loop(blks, 1, 0)

reindex_loop(blks, k, index) ==
    IF k > Len(blks) THEN blks
    ELSE reindex_loop([blks EXCEPT ![k].current_index = index], k + 1, index + 1)

reindex_blocks(blks) == reindex_loop(blks, 1, 1)

(* The text of to_content as a sequence of pieces: a block's index, its    *)
(* str(), and the newline characters between them. *)
NL == <<"nl">>

RECURSIVE content_of(_)
content_of(blks) ==
    IF blks = <<>> THEN <<>>
    ELSE << <<"index", Head(blks).current_index>>, NL,
            <<"str", Head(blks).id>>, NL, NL >> \o content_of(Tail(blks))

(* content[:-1] *)
drop_last(s) == IF s = <<>> THEN <<>> ELSE SubSeq(s, 1, Len(s) - 1)

to_content_text(blks) == drop_last(content_of(blks))

----------------------------------------------------------------------------
(* Subtitle.warn and Subtitle.ad, on the two sets. *)

(* warn without its test of ad_blocks *)
warn_unguarded(ads, warnings, block) == warnings \cup {block}

(* warn keeping a copy of the block instead of the block *)
warn_copy(ads, warnings, block) ==
    IF block \notin ads THEN warnings \cup {<<"copy", block[2]>>} ELSE warnings

(* ad without the removal from warning_blocks *)
ad_keep_warning(ads, warnings, block) ==
    [warning_blocks |-> warnings, ad_blocks |-> ads \cup {block}]

(* self.warning_blocks after warn(block) *)
warn(ads, warnings, block) ==
    IF block \notin ads THEN warnings \cup {block} ELSE warnings

(* self.warning_blocks and self.ad_blocks after ad(block) *)
ad(ads, warnings, block) ==
    [warning_blocks |-> warnings \ {block}, ad_blocks |-> ads \cup {block}]

(* A SubBlock that is not one of this document's blocks. *)
Foreign == <<"foreign", 0>>

DocIds == {blocks[k].id : k \in 1..Len(blocks)}

Objs == DocIds \cup {Foreign}

(* block.current_index of any block a caller may hold. *)
current_index_of(blks, b) ==
    IF \E k \in 1..Len(blks) : blks[k].id = b
    THEN blks[CHOOSE k \in 1..Len(blks) : blks[k].id = b].current_index
    ELSE 0

(* The orders in which a set may be iterated. *)
Orderings(S) ==
    {f \in [1..Cardinality(S) -> S] :
        \A i, j \in 1..Cardinality(S) : f[i] = f[j] => i = j}

(* get_warning_indexes, iterating the set in the order f *)
get_warning_indexes(blks, f) ==
    [i \in 1..Len(f) |-> <<"str", current_index_of(blks, f[i])>>]

----------------------------------------------------------------------------
(* Subtitle.__init__, step by step. *)

Call(name, arg) == [name |-> name, arg |-> arg]

InInit == Call("__init__", <<>>)

None == <<>>

InitObject ==
    /\ pc = "start"
    /\ blocks = <<>>
    /\ ad_blocks = {}
    /\ warning_blocks = {}
    /\ language = NoLang
    /\ err = NoError
    /\ last_op = InInit
    /\ ret = None
    /\ det_determine = NoGuess
    /\ det_validate = NoGuess

(* lines 28-33: read the file and segment it *)
ParseFile ==
    /\ pc = "start"
    /\ LET r == parse_file_content(file_content, width)
       IN  /\ blocks' = r.blocks
           /\ err' = r.err
           /\ pc' = IF r.err = NoError THEN "parsed" ELSE "failed"
    /\ UNCHANGED <<config_vars, ad_blocks, warning_blocks, language, last_op,
                   ret, det_determine, det_validate>>

(* lines 39-40: if not self: raise SubtitleContentException *)
CheckContent ==
    /\ pc = "parsed"
    /\ pc' = IF bool_subtitle(blocks) THEN "language" ELSE "failed"
    /\ err' = IF bool_subtitle(blocks) THEN NoError
              ELSE "SubtitleContentException"
    /\ UNCHANGED <<config_vars, blocks, ad_blocks, warning_blocks, language,
                   last_op, ret, det_determine, det_validate>>

(* lines 42-45: the override, or determine_language *)
SetLanguage ==
    /\ pc = "language"
    /\ \E guess \in IF args_language = NoLang
                       /\ determine_detects(default_language, suffixes, blocks)
                    THEN Guesses ELSE {NoGuess} :
          /\ det_determine' = guess
          /\ language' = IF args_language # NoLang THEN args_language
                         ELSE determine_language(default_language, suffixes,
                                                 blocks, guess)
    /\ pc' = "validate"
    /\ UNCHANGED <<config_vars, blocks, ad_blocks, warning_blocks, err,
                   last_op, ret, det_validate>>

(* lines 47-48: language_is_correct; a False result only logs a warning *)
ValidateLanguage ==
    /\ pc = "validate"
    /\ \E guess \in IF validate_detects(language, blocks)
                    THEN Guesses ELSE {NoGuess} :
          /\ det_validate' = guess
          /\ ret' = language_is_correct(language, blocks, guess)
    /\ pc' = "destroy"
    /\ UNCHANGED <<config_vars, blocks, ad_blocks, warning_blocks, language,
                   err, last_op, det_determine>>

(* lines 50-51: the forced deletions *)
DestroyListed ==
    /\ pc = "destroy"
    /\ LET r == IF destroy_list # <<>>
                THEN mark_blocks_for_deletion(blocks, destroy_list)
                ELSE [blocks |-> blocks, err |-> NoError]
       IN  /\ blocks' = r.blocks
           /\ err' = r.err
           /\ pc' = IF r.err = NoError THEN "done" ELSE "failed"
    /\ UNCHANGED <<config_vars, ad_blocks, warning_blocks, language, last_op,
                   ret, det_determine, det_validate>>

----------------------------------------------------------------------------
(* The calls on a constructed Subtitle. *)

Warn(block) ==
    /\ pc = "done"
    /\ warning_blocks' = warn(ad_blocks, warning_blocks, block)
    /\ last_op' = Call("warn", block)
    /\ ret' = None
    /\ err' = NoError
    /\ UNCHANGED <<config_vars, pc, blocks, ad_blocks, language,
                   det_determine, det_validate>>

Ad(block) ==
    /\ pc = "done"
    /\ LET r == ad(ad_blocks, warning_blocks, block)
       IN  /\ warning_blocks' = r.warning_blocks
           /\ ad_blocks' = r.ad_blocks
    /\ last_op' = Call("ad", block)
    /\ ret' = None
    /\ err' = NoError
    /\ UNCHANGED <<config_vars, pc, blocks, language, det_determine,
                   det_validate>>

MarkBlocksForDeletion(purge_list) ==
    /\ pc = "done"
    /\ LET r == mark_blocks_for_deletion(blocks, purge_list)
       IN  /\ blocks' = r.blocks
           /\ err' = r.err
    /\ last_op' = Call("mark_blocks_for_deletion", purge_list)
    /\ ret' = None
    /\ UNCHANGED <<config_vars, pc, ad_blocks, warning_blocks, language,
                   det_determine, det_validate>>

Reindex ==
    /\ pc = "done"
    /\ blocks' = reindex_blocks(blocks)
    /\ last_op' = Call("reindex", <<>>)
    /\ ret' = None
    /\ err' = NoError
    /\ UNCHANGED <<config_vars, pc, ad_blocks, warning_blocks, language,
                   det_determine, det_validate>>

ToContent ==
    /\ pc = "done"
    /\ ret' = to_content_text(blocks)
    /\ last_op' = Call("to_content", <<>>)
    /\ err' = NoError
    /\ UNCHANGED <<config_vars, pc, blocks, ad_blocks, warning_blocks,
                   language, det_determine, det_validate>>

GetWarningIndexes ==
    /\ pc = "done"
    /\ \E f \in Orderings(warning_blocks) :
          ret' = get_warning_indexes(blocks, f)
    /\ last_op' = Call("get_warning_indexes", <<>>)
    /\ err' = NoError
    /\ UNCHANGED <<config_vars, pc, blocks, ad_blocks, warning_blocks,
                   language, det_determine, det_validate>>

LanguageIsCorrect ==
    /\ pc = "done"
    /\ \E guess \in IF validate_detects(language, blocks)
                    THEN Guesses ELSE {NoGuess} :
          /\ det_validate' = guess
          /\ ret' = language_is_correct(language, blocks, guess)
    /\ last_op' = Call("language_is_correct", <<>>)
    /\ err' = NoError
    /\ UNCHANGED <<config_vars, pc, blocks, ad_blocks, warning_blocks,
                   language, det_determine>>

----------------------------------------------------------------------------
(* The files and settings explored. *)

Seqs(S, n) == UNION {[1..k -> S] : k \in 0..n}

(* A cue: its number, its time line, its text lines. *)
Cue(text) == <<NUM, ARROW>> \o text

(* Texts of a cue: plain lines, lines of digits, lines holding an arrow,   *)
(* and a line of digits followed by a line holding an arrow.               *)
CueTexts ==
    {<<TEXT>>, <<NUM>>, <<ARROW>>, <<TEXT, TEXT>>, <<TEXT, NUM>>,
     <<NUM, TEXT>>, <<ARROW, NUM>>, <<NUM, ARROW>>}

RECURSIVE FilesOfCues(_)
FilesOfCues(n) ==
    IF n = 0 THEN {<<>>}
    ELSE {f \o Cue(t) : f \in FilesOfCues(n - 1), t \in CueTexts}

CueFiles == UNION {FilesOfCues(n) : n \in 1..MaxCues}

JunkFiles == Seqs(Kinds, MaxJunk)

(* n cues of one text line each, a blank line between them *)
RECURSIVE SimpleFile(_)
SimpleFile(n) ==
    IF n = 0 THEN <<>>
    ELSE IF n = 1 THEN Cue(<<TEXT>>)
    ELSE SimpleFile(n - 1) \o <<BLANK>> \o Cue(<<TEXT>>)

Positions == (0 - (MaxBlocks + 1))..(MaxBlocks + 1)

PurgeLists == Seqs(Positions, MaxPurge)

SinglePositions == Seqs(Positions, 1)

SuffixLists == Seqs({DotSrt, DotEnUs, DotSvSe, DotForced}, MaxSuffixes)

NextInit ==
    \/ ParseFile
    \/ CheckContent
    \/ SetLanguage
    \/ ValidateLanguage
    \/ DestroyListed

(* Documents of up to MaxBlocks blocks and every call on them. *)
Init ==
    /\ file_content \in {SimpleFile(n) : n \in 0..(MaxBlocks + 1)}
                        \cup {<<TEXT, NUM, ARROW, TEXT>>}
    /\ width = 1
    /\ suffixes = <<DotEn, DotSrt>>
    /\ args_language = NoLang
    /\ default_language = NoLang
    /\ destroy_list \in {<<>>, <<2, 99>>}
    /\ InitObject

Next ==
    \/ NextInit
    \/ \E block \in Objs : Warn(block)
    \/ \E block \in Objs : Ad(block)
    \/ \E purge_list \in SinglePositions : MarkBlocksForDeletion(purge_list)
    \/ Reindex
    \/ ToContent
    \/ GetWarningIndexes
    \/ LanguageIsCorrect

Spec == Init /\ [][Next]_vars

(* Any file, segmented and checked by the constructor. *)
InitSeg ==
    /\ file_content \in JunkFiles \cup CueFiles
                        \cup {f \o <<BLANK>> : f \in CueFiles}
    /\ width = 1
    /\ suffixes = <<DotSrt>>
    /\ args_language \in {NoLang, En}
    /\ default_language = NoLang
    /\ destroy_list \in {<<>>, <<1>>}
    /\ InitObject

SpecSeg == InitSeg /\ [][NextInit]_vars

(* Every setting of the language sources, on short and long documents. *)
InitLang ==
    /\ file_content \in {SimpleFile(n) : n \in 1..3}
    /\ width \in {249, 250}
    /\ suffixes \in SuffixLists
    /\ args_language \in {NoLang, English, Zz, Und}
    /\ default_language \in {NoLang, Sv}
    /\ destroy_list = <<>>
    /\ InitObject

NextLang == NextInit \/ LanguageIsCorrect

SpecLang == InitLang /\ [][NextLang]_vars

(* Documents of up to MaxBlocks blocks and every list of positions. *)
InitMark ==
    /\ file_content \in {SimpleFile(n) : n \in 0..(MaxBlocks + 1)}
    /\ width = 1
    /\ suffixes = <<DotSrt>>
    /\ args_language = NoLang
    /\ default_language = NoLang
    /\ destroy_list \in {<<>>, <<2, 99>>, <<0>>, <<1, 0 - (MaxBlocks + 1), 2>>}
    /\ InitObject

NextMark ==
    \/ NextInit
    \/ \E purge_list \in PurgeLists : MarkBlocksForDeletion(purge_list)

SpecMark == InitMark /\ [][NextMark]_vars

----------------------------------------------------------------------------
(* The properties of the mark sets and of the block sequence (Spec). *)

(* C1: in every state reachable from a freshly constructed Subtitle by     *)
(* warn and ad calls on any blocks, ad_blocks and warning_blocks have no   *)
(* block in common.                                                        *)
C1_Disjoint == ad_blocks \cap warning_blocks = {}

C1_Witness ==
    /\ last_op.name = "ad"
    /\ ad_blocks # {}
    /\ warning_blocks # {}
    /\ Foreign \in ad_blocks

(* C2: ad is sticky.  A block in ad_blocks stays there and is not in       *)
(* warning_blocks after any further call; ad(b) leaves b in ad_blocks and  *)
(* out of warning_blocks whatever came before (a warn(b) included); and    *)
(* ad(b) on a block already in ad_blocks changes neither set.              *)
C2_AdSticky ==
    [][\A b \in Objs :
          /\ b \in ad_blocks => b \in ad_blocks' /\ b \notin warning_blocks'
          /\ (last_op'.name = "ad" /\ last_op'.arg = b) =>
                /\ b \in ad_blocks'
                /\ b \notin warning_blocks'
                /\ b \in ad_blocks =>
                      ad_blocks' = ad_blocks /\ warning_blocks' = warning_blocks
      ]_vars

C2_Witness ==
    /\ last_op.name = "warn"
    /\ last_op.arg \in ad_blocks
    /\ last_op.arg \notin warning_blocks
    /\ warning_blocks # {}

(* C9, as claimed: in every reachable state every block in ad_blocks or    *)
(* warning_blocks is a block of the document's sequence, whatever blocks   *)
(* warn and ad were called with.                                           *)
C9_AllMarkedInDocument == (ad_blocks \cup warning_blocks) \subseteq DocIds

(* C9, amended: a call of warn or ad with a block of the document, and any *)
(* other call, keeps every marked block inside the document's sequence; so *)
(* the sets hold only blocks of the document as long as warn and ad are    *)
(* called with blocks of the document.                                     *)
C9_MarkedInDocumentIfArgsAre ==
    [][(/\ (ad_blocks \cup warning_blocks) \subseteq DocIds
        /\ last_op'.name \in {"warn", "ad"} => last_op'.arg \in DocIds)
       => (ad_blocks' \cup warning_blocks') \subseteq DocIds']_vars

C9_Witness ==
    /\ last_op.name = "warn"
    /\ last_op.arg \in DocIds
    /\ last_op.arg \in warning_blocks
    /\ ad_blocks # {}
    /\ (ad_blocks \cup warning_blocks) \subseteq DocIds

(* C10: once constructed, no call adds, removes or reorders blocks;        *)
(* mark_blocks_for_deletion changes nothing but scores (the two sets and   *)
(* every current_index stay); warn and ad change no block at all.          *)
SameSequence(old, new) ==
    /\ Len(new) = Len(old)
    /\ \A k \in 1..Len(old) :
          /\ new[k].id = old[k].id
          /\ new[k].lines = old[k].lines
          /\ new[k].content_len = old[k].content_len

C10_Frame ==
    [][/\ pc = "done" => SameSequence(blocks, blocks')
       /\ (pc = "done" /\ last_op'.name = "mark_blocks_for_deletion") =>
             /\ ad_blocks' = ad_blocks
             /\ warning_blocks' = warning_blocks
             /\ Len(blocks') = Len(blocks)
             /\ \A k \in 1..Len(blocks) :
                   blocks'[k].current_index = blocks[k].current_index
       /\ (pc = "done" /\ last_op'.name \in {"warn", "ad"}) => blocks' = blocks
      ]_vars

C10_Witness ==
    /\ last_op.name = "mark_blocks_for_deletion"
    /\ last_op.arg = <<2>>
    /\ Len(blocks) = 3
    /\ blocks[2].regex_matches = Sentinel
    /\ blocks[3].current_index = 3
    /\ ad_blocks # {}
    /\ warning_blocks # {}

(* C8: after reindex the i-th block of the sequence has current_index i,   *)
(* with no block dropped or moved; a second reindex changes nothing;       *)
(* to_content changes no block, and called twice in a row returns the same *)
(* text.                                                                   *)
C8_Reindex ==
    [][/\ (pc = "done" /\ last_op'.name = "reindex") =>
             /\ SameSequence(blocks, blocks')
             /\ \A i \in 1..Len(blocks') : blocks'[i].current_index = i
             /\ last_op.name = "reindex" => blocks' = blocks
       /\ (pc = "done" /\ last_op'.name = "to_content") =>
             /\ blocks' = blocks
             /\ last_op.name = "to_content" => ret' = ret
      ]_vars

C8_Witness ==
    /\ last_op.name = "to_content"
    /\ Len(blocks) = 3
    /\ \A i \in 1..3 : blocks[i].current_index = i
    /\ ret = << <<"index", 1>>, NL, <<"str", <<"block", 1>> >>, NL, NL,
                <<"index", 2>>, NL, <<"str", <<"block", 2>> >>, NL, NL,
                <<"index", 3>>, NL, <<"str", <<"block", 3>> >>, NL >>

----------------------------------------------------------------------------
(* The property of mark_blocks_for_deletion (SpecMark). *)

Elements(seq) == {seq[i] : i \in 1..Len(seq)}

(* What the claim says of a list of positions applied to blocks old: each  *)
(* position in 1..Len(old) sets that block's score to the sentinel, every  *)
(* other position changes no score, and nothing is raised.                 *)
MarkedAsClaimed(old, new, error, positions) ==
    /\ error = NoError
    /\ Len(new) = Len(old)
    /\ \A k \in 1..Len(old) :
          new[k].regex_matches =
              IF k \in Elements(positions) THEN 3 ELSE old[k].regex_matches

(* C3: mark_blocks_for_deletion(positions) sets the score of the p-th      *)
(* block to 3 for each position p in 1..L and silently ignores every       *)
(* position outside 1..L (0, negative values and values above L): such a   *)
(* position changes no score and raises nothing.                           *)
C3_OutOfRangeIgnored ==
    [][/\ (pc = "done" /\ last_op'.name = "mark_blocks_for_deletion") =>
             MarkedAsClaimed(blocks, blocks', err', last_op'.arg)
       /\ (pc = "destroy" /\ destroy_list # <<>>) =>
             MarkedAsClaimed(blocks, blocks', err', destroy_list)
      ]_vars

----------------------------------------------------------------------------
(* The properties of segmentation and of the emptiness check (SpecSeg). *)

(* The lines at which a cue starts: a line of digits followed by a line    *)
(* holding an arrow.                                                       *)
CueStarts(raw) ==
    {p \in 1..(Len(raw) - 1) : raw[p] = NUM /\ raw[p + 1] = ARROW}

(* The line after the cue that starts at p: the next start, or the end. *)
CueEnd(raw, p) ==
    IF \E q \in CueStarts(raw) : q > p
    THEN CHOOSE q \in CueStarts(raw) :
            q > p /\ \A r \in CueStarts(raw) : r > p => q <= r
    ELSE Len(raw) + 1

(* raw is N >= 1 well-formed cues and nothing else: it starts with a cue,  *)
(* and every cue has at least one text line, none of them blank.           *)
WellFormedCues(raw) ==
    /\ 1 \in CueStarts(raw)
    /\ \A p \in CueStarts(raw) :
          /\ CueEnd(raw, p) >= p + 3
          /\ \A i \in (p + 2)..(CueEnd(raw, p) - 1) : raw[i] # BLANK

(* The same, allowing the empty last line that a final newline leaves. *)
IsCueFile(raw) ==
    \/ WellFormedCues(raw)
    \/ /\ Len(raw) >= 1
       /\ raw[Len(raw)] = BLANK
       /\ WellFormedCues(SubSeq(raw, 1, Len(raw) - 1))

NumCues(raw) == Cardinality(CueStarts(raw))

(* The start of the k-th cue. *)
CueStart(raw, k) ==
    CHOOSE p \in CueStarts(raw) :
        Cardinality({q \in CueStarts(raw) : q < p}) = k - 1

CueLines(raw, k) ==
    SubSeq(raw, CueStart(raw, k), CueEnd(raw, CueStart(raw, k)) - 1)

(* C4: on N >= 1 well-formed cues with nothing after the last cue's text,  *)
(* _breakup_block yields exactly N - 1 blocks, the k-th built from exactly *)
(* the lines of cue k in their order; the last cue is never emitted.       *)
C4_LastCueDropped ==
    LET raw == split_lines(file_content)
    IN  (pc # "start" /\ IsCueFile(raw)) =>
           /\ err # "ParsingException"
           /\ Len(blocks) = NumCues(raw) - 1
           /\ \A k \in 1..(NumCues(raw) - 1) :
                 blocks[k].lines = CueLines(raw, k)

C4_Witness ==
    /\ pc = "parsed"
    /\ file_content = Cue(<<TEXT, NUM>>) \o Cue(<<ARROW>>) \o Cue(<<TEXT>>)
    /\ Len(blocks) = 2
    /\ blocks[1].lines = <<NUM, ARROW, TEXT, NUM>>
    /\ blocks[2].lines = <<NUM, ARROW, ARROW>>

(* C5: once segmentation has returned, construction fails with             *)
(* SubtitleContentException exactly when no block with non-empty content   *)
(* was appended; when it does, the language is neither determined nor      *)
(* validated and no block is marked; a file of one cue always fails so.    *)
Segmented == pc \notin {"start", "parsed"} /\ err # "ParsingException"

NoContent == \A k \in 1..Len(blocks) : blocks[k].content_len = 0

----------------------------------------------------------------------------
(* The properties of the language tag (SpecLang). *)

(* The up-to-two suffix components before the final suffix, in file order. *)
BeforeFinalSuffix ==
    {i \in 1..(Len(suffixes) - 1) : i >= Len(suffixes) - 2}

(* The token of a suffix component: the dot dropped, ":" and "_" read as   *)
(* "-", and what follows the first "-" cut off.                            *)
Token(suffix) ==
    LET body == Tail(suffix)
        cut == {i \in 1..Len(body) : body[i] \in {"-", "_", ":"}}
    IN  IF cut = {} THEN body
        ELSE SubSeq(body, 1, (CHOOSE i \in cut : \A j \in cut : i <= j) - 1)

RecognizedSuffixes ==
    {i \in BeforeFinalSuffix : is_language(Token(suffixes[i]))}

ContentLength == sub_content_len(blocks)

(* The tag the five-step priority order gives. *)
LanguageByPriority ==
    IF args_language # NoLang THEN args_language
    ELSE IF default_language # NoLang THEN default_language
    ELSE IF RecognizedSuffixes # {}
    THEN Token(suffixes[CHOOSE i \in RecognizedSuffixes :
                            \A j \in RecognizedSuffixes : i <= j])
    ELSE IF ContentLength < 500 THEN Und
    ELSE IF det_determine.prob > 90 THEN det_determine.lang
    ELSE Und

LanguageSet == pc \in {"validate", "destroy", "done"}

(* C6: the tag stored at construction is the first of: the override, the   *)
(* default language, the first recognised token of the up-to-two suffix    *)
(* components before the final suffix, "und" for content shorter than 500  *)
(* characters, the detector's top guess if its probability is above 0.9    *)
(* and "und" otherwise; and determination invokes the detector only when   *)
(* the first four steps all fail to decide.                                *)
C6_LanguagePriority ==
    LanguageSet =>
       /\ language = LanguageByPriority
       /\ det_determine # NoGuess <=>
             /\ args_language = NoLang
             /\ default_language = NoLang
             /\ RecognizedSuffixes = {}
             /\ ~(ContentLength < 500)

C6_Witness ==
    /\ pc = "done"
    /\ args_language = NoLang
    /\ default_language = NoLang
    /\ suffixes = <<DotEnUs, DotForced, DotSvSe, DotSrt>>
    /\ ContentLength = 500
    /\ language = Sv
    /\ det_determine = NoGuess

(* C7: language_is_correct returns true for the tag "und", for a tag with  *)
(* no 2-letter code and for content shorter than 500 characters; otherwise *)
(* it returns true exactly when the detector's top guess is the tag's      *)
(* 2-letter code with a probability above 0.8.  Whatever it returns, it    *)
(* raises nothing and leaves the stored tag as it was, and construction    *)
(* goes on.                                                                *)
C7_LanguageIsCorrect ==
    [][(pc = "validate" \/ (pc = "done" /\ last_op'.name = "language_is_correct"))
       => /\ ret' = IF \/ language = Und
                       \/ get_2letter_code(language) = NoLang
                       \/ ContentLength < 500
                    THEN TRUE
                    ELSE /\ det_validate'.lang = get_2letter_code(language)
                         /\ det_validate'.prob > 80
          /\ language' = language
          /\ err' = NoError
          /\ pc' = IF pc = "validate" THEN "destroy" ELSE "done"
      ]_vars

C7_Witness ==
    /\ pc = "done"
    /\ last_op = InInit
    /\ language = English
    /\ ContentLength = 500
    /\ det_validate = [lang |-> En, prob |-> 80]
    /\ ret = FALSE

====
